---- MODULE Spec2Model ----
(***************************************************************************)
(* A model of winsup/cygwin/fhandler_fifo.cc: the reader-side connection   *)
(* engine of Cygwin's FIFO emulation on Windows named pipes.               *)
(*                                                                         *)
(* One FIFO identity is modelled.  Reader endpoints (fhandler_fifo objects *)
(* with reader == true) each own a handler table fc_handler[], a count     *)
(* nconnected and a fifo_reader thread running thread_func.  Writers are   *)
(* fhandler_fifo objects with writer == true.  The named pipe file system, *)
(* the two named events and the named shared section are kernel objects    *)
(* and are modelled by what NT does with them.                             *)
(***************************************************************************)
EXTENDS Integers, Sequences, FiniteSets, TLC

(***************************************************************************)
(* Bounds of the model.                                                    *)
(***************************************************************************)
MAX_CLIENTS == 2          \* capacity of fc_handler[] (scaled down)
MaxPipes == 4             \* pipe instance ids available to the pipe file system
MaxBytes == 2             \* bytes one writer may write in total
MaxMsg == 2               \* longest message (chunk) a writer sends
MaxReadLen == 2           \* longest read buffer
MaxAtomic == 2            \* max_atomic_write (scaled down)
MaxWriteLen == 5          \* longest buffer given to one write
MaxPid == 2               \* process generations of one endpoint (fork, exec)

Readers == {"r1", "r2"}
Writers == {"w1", "w2", "w3"}
PipeIds == 1..MaxPipes

NoOwner == [winpid |-> 0, fh |-> "none"]   \* null_fr_id

VARIABLES
  read_ready,     \* named manual-reset event "r-event.<dev>.<ino>"
  write_ready,    \* named manual-reset event "w-event.<dev>.<ino>"
  owner,          \* shmem->_owner
  nreaders,       \* shmem->_nreaders
  pipes,          \* instances of the named pipe, by id
  rpc,            \* position of the reader endpoint's caller
  rflag,          \* [nb, dx, src, winpid]: O_NONBLOCK, duplexer, endpoint it was
                  \* duplicated from, generation of the process that holds it
  rh,             \* the duplexer's own client handle (0: none)
  fc,             \* fc_handler[0 .. nhandlers-1]
  nconn,          \* nconnected
  cancel_evt,     \* cancel_evt is signalled
  listening_evt,  \* listening_evt is signalled
  fclock,         \* holder of fifo_client_lock
  tpc,            \* position of the fifo_reader thread
  tstatus,        \* the thread's local 'status'
  tps,            \* the thread's local 'ps'
  rd,             \* raw_read locals: [len, i, retry]
  rres,           \* outcome of the last raw_read / open: [n, data, src, err]
  hist,           \* history: the bytes delivered so far, per writer that wrote them
  wpc,            \* position of the writer's caller
  wnb,            \* writer's O_NONBLOCK
  wh,             \* writer's pipe handle (0: none)
  werr,           \* writer's errno
  wseq,           \* bytes written so far by the writer
  wr              \* raw_write locals and result of the writer's last write

rvars == <<rpc, rflag, rh, fc, nconn, cancel_evt, listening_evt, fclock,
           tpc, tstatus, tps, rd, rres, hist>>
wvars == <<wpc, wnb, wh, werr, wseq, wr>>
gvars == <<read_ready, write_ready, owner, nreaders, pipes>>
vars == <<gvars, rvars, wvars>>

(***************************************************************************)
(* The named pipe file system.                                             *)
(***************************************************************************)
\* A pipe instance: srv are the endpoints holding a server-end handle,
\* client the peer that connected, copen whether the client end is still
\* open, q the queued messages (message mode).
NoPipe == [srv |-> {}, client |-> "none", copen |-> FALSE, q |-> <<>>]

PipeExists(p) == pipes[p].srv # {}
PipeFree(p) == pipes[p].srv = {} /\ ~pipes[p].copen
\* An instance accepts a client from its creation until one connects.
PipeListening(p) == PipeExists(p) /\ pipes[p].client = "none"
NameExists == \E p \in PipeIds : PipeExists(p)
ListeningPipes == {p \in PipeIds : PipeListening(p)}
FreePipes == {p \in PipeIds : PipeFree(p)}
NewPipeId == CHOOSE p \in FreePipes : \A r \in FreePipes : p <= r

\* Closing a server-end handle; the instance goes away with its last handle.
CloseSrv(ps, p, e) ==
  LET s == ps[p].srv \ {e} IN
  IF s = {} THEN [ps EXCEPT ![p] = [NoPipe EXCEPT !.copen = ps[p].copen]]
            ELSE [ps EXCEPT ![p].srv = s]

\* Closing the client end.
CloseClient(ps, p) ==
  IF ps[p].srv = {} THEN [ps EXCEPT ![p] = NoPipe]
                    ELSE [ps EXCEPT ![p].copen = FALSE]


(***************************************************************************)
(* Kernel object lifetimes: a named event or section lives as long as some *)
(* handle to it is open and is created afresh (unsignalled, zeroed) by the *)
(* next opener.                                                            *)
(***************************************************************************)
EventHolders(rp, wp) ==
  {e \in Readers : rp[e] \notin {"none", "closed", "failed"}}
    \cup {w \in Writers : wp[w] \notin {"init", "closed", "failed"}}

ShmHolders(rp) ==
  {e \in Readers : rp[e] \notin {"none", "o_create", "closed", "failed"}}

(***************************************************************************)
(* The handler table.                                                      *)
(***************************************************************************)
Me(e) == [winpid |-> rflag[e].winpid, fh |-> e]   \* self-identity (me.winpid, me.fh)

Last(t) == t[Len(t)]
Handles(t) == {t[i].h : i \in 1..Len(t)}
NumConnected(t) == Cardinality({i \in 1..Len(t) : t[i].state = "connected"})

TableFull_OffByOne(t) == Len(t) > MAX_CLIENTS

\* add_client_handler: EMFILE when the table is full.
TableFull(t) == Len(t) = MAX_CLIENTS

\* create_pipe_instance: FILE_CREATE for the first instance fails if the
\* name exists, FILE_OPEN for later ones fails if it does not.
CreateSucceeds(first, nameExists) == IF first THEN ~nameExists ELSE nameExists

\* delete_client_handler(i): close the handle and compact the table.
DeleteClientHandler(t, i) ==
  SubSeq(t, 1, i - 1) \o SubSeq(t, i + 1, Len(t))

\* record_connection: the entry's new state.
RecordConnection(t, i) == [t EXCEPT ![i].state = "connected"]

\* The purge at the top of the accept loop.
PurgeInvalid(t) == SelectSeq(t, LAMBDA x : x.state # "invalid")
InvalidHandles(t) == {t[i].h : i \in {j \in 1..Len(t) : t[j].state = "invalid"}}

CloseSrvSet(ps, S, e) ==
  [p \in PipeIds |-> IF p \in S THEN CloseSrv(ps, p, e)[p] ELSE ps[p]]

\* open_pipe: NtOpenFile on the pipe name.
OpenPipeStatus ==
  IF ListeningPipes # {} THEN "SUCCESS"
  ELSE IF NameExists THEN "PIPE_NOT_AVAILABLE"
  ELSE "OBJECT_NAME_NOT_FOUND"

\* STATUS_PIPE_NO_INSTANCE_AVAILABLE
NoInstanceAvailable(status) ==
  status \in {"INSTANCE_NOT_AVAILABLE", "PIPE_NOT_AVAILABLE", "PIPE_BUSY"}

ErrnoOf(status) ==
  IF status = "OBJECT_NAME_NOT_FOUND" THEN "ENOENT"
  ELSE IF NoInstanceAvailable(status) THEN "EBUSY"
  ELSE "EIO"

Connect(ps, p, c) == [ps EXCEPT ![p].client = c, ![p].copen = TRUE]

NoRes == [n |-> 0, data |-> <<>>, src |-> 0, err |-> "none"]

\* raw_write before any call: req is the length asked for, len, chunk,
\* nbytes, ptr (offset into the buffer), ret, status as in the code, err the
\* errno set by the call, sigpipe the SIGPIPEs raised by it, nchunks the
\* NtWriteFile calls issued, sent the buffer offsets handed to the pipe.
NoWrite == [pc |-> "idle", req |-> 0, len |-> 0, chunk |-> 0, nbytes |-> 0,
            ptr |-> 0, ret |-> -1, status |-> "SUCCESS", err |-> "none",
            sigpipe |-> 0, nchunks |-> 0, sent |-> <<>>]

Init ==
  /\ read_ready = FALSE
  /\ write_ready = FALSE
  /\ owner = NoOwner
  /\ nreaders = 0
  /\ pipes = [p \in PipeIds |-> NoPipe]
  /\ rpc = [e \in Readers |-> "none"]
  /\ rflag = [e \in Readers |-> [nb |-> FALSE, dx |-> FALSE, src |-> "none", winpid |-> 1]]
  /\ rh = [e \in Readers |-> 0]
  /\ fc = [e \in Readers |-> <<>>]
  /\ nconn = [e \in Readers |-> 0]
  /\ cancel_evt = [e \in Readers |-> FALSE]
  /\ listening_evt = [e \in Readers |-> FALSE]
  /\ fclock = [e \in Readers |-> "free"]
  /\ tpc = [e \in Readers |-> "none"]
  /\ tstatus = [e \in Readers |-> "none"]
  /\ tps = [e \in Readers |-> "none"]
  /\ rd = [e \in Readers |-> [len |-> 0, i |-> 0, retry |-> TRUE]]
  /\ rres = [e \in Readers |-> NoRes]
  /\ hist = [w \in Writers |-> <<>>]
  /\ wpc = [w \in Writers |-> "init"]
  /\ wnb = [w \in Writers |-> FALSE]
  /\ wh = [w \in Writers |-> 0]
  /\ werr = [w \in Writers |-> "none"]
  /\ wseq = [w \in Writers |-> 0]
  /\ wr = [w \in Writers |-> NoWrite]

(***************************************************************************)
(* fhandler_fifo::open, reader side.                                       *)
(***************************************************************************)
\* Flags are stored, the two named events are created and read_ready is
\* armed.
RdOpenArm(e, nb, dx) ==
  /\ rpc[e] = "none"
  /\ rpc' = [rpc EXCEPT ![e] = "o_create"]
  /\ rflag' = [rflag EXCEPT ![e] = [nb |-> nb, dx |-> dx, src |-> "none", winpid |-> 1]]
  /\ read_ready' = TRUE
  /\ UNCHANGED <<write_ready, owner, nreaders, pipes, rh, fc, nconn,
                 cancel_evt, listening_evt, fclock, tpc, tstatus, tps, rd, rres,
                 hist, wvars>>

\* create_shmem, the three control events, me, and the fifo_reader thread.
RdOpenCreate(e) ==
  /\ rpc[e] = "o_create"
  /\ rpc' = [rpc EXCEPT ![e] = "o_check"]
  /\ tpc' = [tpc EXCEPT ![e] = "claim"]
  /\ UNCHANGED <<gvars, rflag, rh, fc, nconn, cancel_evt, listening_evt,
                 fclock, tstatus, tps, rd, rres, hist, wvars>>

\* The single-reader check: ENOTSUP when the count is positive.
ReaderAllowed(n) == ~(n > 0)

RdOpenCheck(e) ==
  /\ rpc[e] = "o_check"
  /\ IF ReaderAllowed(nreaders)
       THEN /\ rpc' = [rpc EXCEPT ![e] = IF rflag[e].dx THEN "o_duplex" ELSE "o_wait"]
            /\ rres' = rres
       ELSE /\ rpc' = [rpc EXCEPT ![e] = "f_cancel"]
            /\ rres' = [rres EXCEPT ![e] = [NoRes EXCEPT !.n = -1, !.err = "ENOTSUP"]]
  /\ UNCHANGED <<gvars, rflag, rh, fc, nconn, cancel_evt, listening_evt,
                 fclock, tpc, tstatus, tps, rd, hist, wvars>>

\* wait(h): the event wait of open; a non-blocking caller uses timeout 0.
\* "ok": proceed, "block": keep waiting, otherwise the errno.
WaitResult_TimeoutOk(signalled, nonblock, isWriteReady) ==
  IF signalled THEN "ok"
  ELSE IF ~nonblock THEN "block"
  ELSE "ok"

WaitResult(signalled, nonblock, isWriteReady) ==
  IF signalled THEN "ok"
  ELSE IF ~nonblock THEN "block"
  ELSE IF isWriteReady THEN "ok"
  ELSE "ENXIO"

\* Not a duplexer: wait for write_ready.
RdOpenWait(e) ==
  /\ rpc[e] = "o_wait"
  /\ WaitResult(write_ready, rflag[e].nb, TRUE) = "ok"
  /\ rpc' = [rpc EXCEPT ![e] = "o_inc"]
  /\ UNCHANGED <<gvars, rflag, rh, fc, nconn, cancel_evt, listening_evt,
                 fclock, tpc, tstatus, tps, rd, rres, hist, wvars>>

\* A duplexer waits for listening_evt and connects its own write handle.
RdOpenDuplex(e) ==
  /\ rpc[e] = "o_duplex"
  /\ listening_evt[e]
  /\ IF OpenPipeStatus = "SUCCESS"
       THEN \E p \in ListeningPipes :
              /\ pipes' = Connect(pipes, p, e)
              /\ rh' = [rh EXCEPT ![e] = p]
              /\ rpc' = [rpc EXCEPT ![e] = "o_inc"]
              /\ rres' = rres
       ELSE /\ rpc' = [rpc EXCEPT ![e] = "f_cancel"]
            /\ rres' = [rres EXCEPT ![e] =
                          [NoRes EXCEPT !.n = -1, !.err = ErrnoOf(OpenPipeStatus)]]
            /\ UNCHANGED <<pipes, rh>>
  /\ UNCHANGED <<read_ready, write_ready, owner, nreaders, rflag, fc, nconn,
                 cancel_evt, listening_evt, fclock, tpc, tstatus, tps, rd, hist, wvars>>

RdOpenInc(e) ==
  /\ rpc[e] = "o_inc"
  /\ nreaders' = nreaders + 1
  /\ rpc' = [rpc EXCEPT ![e] = "open"]
  /\ UNCHANGED <<read_ready, write_ready, owner, pipes, rflag, rh, fc, nconn,
                 cancel_evt, listening_evt, fclock, tpc, tstatus, tps, rd, rres,
                 hist, wvars>>

\* err_cancel_frt: cancel_reader_thread signals cancel_evt ...
RdFailCancel(e) ==
  /\ rpc[e] = "f_cancel"
  /\ cancel_evt' = [cancel_evt EXCEPT ![e] = TRUE]
  /\ rpc' = [rpc EXCEPT ![e] = "f_join"]
  /\ UNCHANGED <<gvars, rflag, rh, fc, nconn, listening_evt, fclock, tpc,
                 tstatus, tps, rd, rres, hist, wvars>>

\* ... and waits for the thread; then read_ready is reset if no reader is
\* counted.
RdFailJoin(e) ==
  /\ rpc[e] = "f_join"
  /\ tpc[e] = "done"
  /\ read_ready' = IF nreaders = 0 THEN FALSE ELSE read_ready
  /\ rpc' = [rpc EXCEPT ![e] = "f_unmap"]
  /\ UNCHANGED <<write_ready, owner, nreaders, pipes, rflag, rh, fc, nconn,
                 cancel_evt, listening_evt, fclock, tpc, tstatus, tps, rd, rres,
                 hist, wvars>>

\* The control events, the section view and handle and the two named events
\* are closed.  The handler table's handles are not.
RdFailUnmap(e) ==
  /\ rpc[e] = "f_unmap"
  /\ rpc' = [rpc EXCEPT ![e] = "failed"]
  /\ IF ShmHolders(rpc') = {}
       THEN owner' = NoOwner /\ nreaders' = 0
       ELSE UNCHANGED <<owner, nreaders>>
  /\ IF EventHolders(rpc', wpc) = {}
       THEN read_ready' = FALSE /\ write_ready' = FALSE
       ELSE UNCHANGED <<read_ready, write_ready>>
  /\ UNCHANGED <<pipes, rflag, rh, fc, nconn, cancel_evt, listening_evt,
                 fclock, tpc, tstatus, tps, rd, rres, hist, wvars>>


(***************************************************************************)
(* fhandler_fifo::thread_func, the fifo_reader thread.                     *)
(***************************************************************************)
OwnerStep_NeverIdle(cur, me) == IF cur = NoOwner THEN "claim" ELSE "active"

\* The owner test at the top of the loop, under the owner lock.
\* "claim": the record is empty and is set to me; "idle": somebody else
\* owns; "active": I own.
OwnerStep(cur, me) ==
  IF cur = NoOwner THEN "claim"
  ELSE IF cur # me THEN "idle"
  ELSE "active"

T_Claim(e) ==
  /\ tpc[e] = "claim"
  /\ LET s == OwnerStep(owner, Me(e)) IN
       /\ owner' = IF s = "claim" THEN Me(e) ELSE owner
       /\ tpc' = [tpc EXCEPT ![e] = s]
  /\ UNCHANGED <<read_ready, write_ready, nreaders, pipes, rpc, rflag, rh, fc,
                 nconn, cancel_evt, listening_evt, fclock, tstatus, tps, rd, rres,
                 hist, wvars>>

\* Not the owner: WaitForSingleObject (cancel_evt, INFINITE); goto canceled.
T_Idle(e) ==
  /\ tpc[e] = "idle"
  /\ cancel_evt[e]
  /\ tpc' = [tpc EXCEPT ![e] = "done"]
  /\ UNCHANGED <<gvars, rpc, rflag, rh, fc, nconn, cancel_evt, listening_evt,
                 fclock, tstatus, tps, rd, rres, hist, wvars>>

\* Owner: under the table lock delete the invalid entries and add a new
\* handler; then SetEvent (listening_evt).  A failing add ends the thread.
T_Accept(e) ==
  /\ tpc[e] = "active"
  /\ fclock[e] = "free"
  /\ LET t1 == PurgeInvalid(fc[e])
         ps1 == CloseSrvSet(pipes, InvalidHandles(fc[e]), e)
         nameExists == \E p \in PipeIds : ps1[p].srv # {}
         free == {p \in PipeIds : ps1[p].srv = {} /\ ~ps1[p].copen}
         np == CHOOSE p \in free : \A r \in free : p <= r
     IN
       IF TableFull(t1) \/ ~CreateSucceeds(Len(t1) = 0, nameExists)
         THEN /\ fc' = [fc EXCEPT ![e] = t1]
              /\ pipes' = ps1
              /\ tpc' = [tpc EXCEPT ![e] = "done"]
              /\ UNCHANGED listening_evt
         ELSE /\ free # {}
              /\ fc' = [fc EXCEPT ![e] = Append(t1, [h |-> np, state |-> "unknown"])]
              /\ pipes' = [ps1 EXCEPT ![np] = [NoPipe EXCEPT !.srv = {e}]]
              /\ tpc' = [tpc EXCEPT ![e] = "listen"]
              /\ listening_evt' = [listening_evt EXCEPT ![e] = TRUE]
  /\ UNCHANGED <<read_ready, write_ready, owner, nreaders, rpc, rflag, rh,
                 nconn, cancel_evt, fclock, tstatus, tps, rd, rres, hist,
                 wvars>>

\* NtFsControlFile (FSCTL_PIPE_LISTEN) on the new instance.
ListenStatus(pp) ==
  IF pp.client = "none" THEN "PENDING"
  ELSE IF pp.copen THEN "PIPE_CONNECTED"
  ELSE "PIPE_CLOSING"

T_Listen(e) ==
  /\ tpc[e] = "listen"
  /\ LET st == ListenStatus(pipes[Last(fc[e]).h]) IN
       /\ tstatus' = [tstatus EXCEPT ![e] = st]
       /\ tpc' = [tpc EXCEPT ![e] = IF st = "PENDING" THEN "wait" ELSE "post"]
  /\ UNCHANGED <<tps, gvars, rpc, rflag, rh, fc, nconn, cancel_evt, listening_evt,
                 fclock, rd, rres, hist, wvars>>

\* WaitForMultipleObjects: conn_evt (index 0) ...
T_WaitConn(e) ==
  /\ tpc[e] = "wait"
  /\ pipes[Last(fc[e]).h].client # "none"
  /\ tstatus' = [tstatus EXCEPT ![e] = "SUCCESS"]
  /\ tpc' = [tpc EXCEPT ![e] = "post"]
  /\ UNCHANGED <<tps, gvars, rpc, rflag, rh, fc, nconn, cancel_evt, listening_evt,
                 fclock, rd, rres, hist, wvars>>

\* ... or cancel_evt (index 1).
T_WaitCancel(e) ==
  /\ tpc[e] = "wait"
  /\ cancel_evt[e]
  /\ pipes[Last(fc[e]).h].client = "none"
  /\ tstatus' = [tstatus EXCEPT ![e] = "THREAD_IS_TERMINATING"]
  /\ tpc' = [tpc EXCEPT ![e] = "post"]
  /\ UNCHANGED <<tps, gvars, rpc, rflag, rh, fc, nconn, cancel_evt, listening_evt,
                 fclock, rd, rres, hist, wvars>>

\* ... or the wait itself fails: the new entry is deleted, with no
\* fifo_client_lock around it, and the loop starts again; listening_evt
\* is left as it is.
T_WaitFail(e) ==
  /\ tpc[e] = "wait"
  /\ fc' = [fc EXCEPT ![e] = DeleteClientHandler(fc[e], Len(fc[e]))]
  /\ pipes' = CloseSrv(pipes, Last(fc[e]).h, e)
  /\ tpc' = [tpc EXCEPT ![e] = "claim"]
  /\ UNCHANGED <<read_ready, write_ready, owner, nreaders, rpc, rflag, rh,
                 nconn, cancel_evt, listening_evt, fclock, tstatus, tps, rd,
                 rres, hist, wvars>>

\* fifo_client_handler::pipe_state
PipeState(pp) ==
  IF Len(pp.q) > 0 THEN "INPUT_AVAILABLE"
  ELSE IF pp.client = "none" THEN "LISTENING"
  ELSE IF pp.copen THEN "CONNECTED"
  ELSE "CLOSING"

\* The decision of the cancellation branch once the throwaway open_pipe has
\* returned: "delete" or "record".
CancelDecision_AlwaysDelete(bogusConnected, ps) == "delete"

CancelDecision(bogusConnected, ps) ==
  IF bogusConnected THEN "delete"
  ELSE IF ps \in {"CONNECTED", "INPUT_AVAILABLE"} THEN "record"
  ELSE "delete"

\* The switch on status under the table lock, then ResetEvent
\* (listening_evt).
T_Post(e) ==
  /\ tpc[e] = "post"
  /\ fclock[e] = "free"
  /\ LET n == Len(fc[e])
         h == fc[e][n].h
     IN
       CASE tstatus[e] \in {"SUCCESS", "PIPE_CONNECTED"} ->
              /\ fc' = [fc EXCEPT ![e] = RecordConnection(fc[e], n)]
              /\ nconn' = [nconn EXCEPT ![e] = @ + 1]
              /\ write_ready' = TRUE
              /\ pipes' = pipes
              /\ tpc' = [tpc EXCEPT ![e] = "claim"]
              /\ UNCHANGED <<tstatus, tps>>
         [] tstatus[e] = "THREAD_IS_TERMINATING" ->
              \* open_pipe (ph) connects the throwaway client to some
              \* listening instance, if there is one (p = 0: there is none)
              \E p \in (IF OpenPipeStatus = "SUCCESS" THEN ListeningPipes ELSE {0}) :
                LET ps1 == IF p # 0 THEN CloseClient(Connect(pipes, p, "bogus"), p)
                                    ELSE pipes
                    d == CancelDecision(p # 0, PipeState(ps1[h]))
                IN
                  /\ tpc' = [tpc EXCEPT ![e] = "done"]
                  /\ tstatus' = [tstatus EXCEPT ![e] = OpenPipeStatus]
                  /\ tps' = [tps EXCEPT ![e] = IF p # 0 THEN "none" ELSE PipeState(pipes[h])]
                  /\ IF d = "record"
                       THEN /\ fc' = [fc EXCEPT ![e] = RecordConnection(fc[e], n)]
                            /\ nconn' = [nconn EXCEPT ![e] = @ + 1]
                            /\ write_ready' = TRUE
                            /\ pipes' = ps1
                       ELSE /\ fc' = [fc EXCEPT ![e] = DeleteClientHandler(fc[e], n)]
                            /\ pipes' = CloseSrv(ps1, h, e)
                            /\ UNCHANGED <<nconn, write_ready>>
         [] OTHER ->
              /\ fc' = [fc EXCEPT ![e] = DeleteClientHandler(fc[e], n)]
              /\ pipes' = CloseSrv(pipes, h, e)
              /\ tpc' = [tpc EXCEPT ![e] = "claim"]
              /\ UNCHANGED <<nconn, write_ready, tstatus, tps>>
  /\ listening_evt' = [listening_evt EXCEPT ![e] = FALSE]
  /\ UNCHANGED <<read_ready, owner, nreaders, rpc, rflag, rh, cancel_evt,
                 fclock, rd, rres, hist, wvars>>


(***************************************************************************)
(* fhandler_fifo::open, writer side, and the writer's write and close.     *)
(***************************************************************************)
W_Start(w, nb) ==
  /\ wpc[w] = "init"
  /\ wpc' = [wpc EXCEPT ![w] = "wait_rr"]
  /\ wnb' = [wnb EXCEPT ![w] = nb]
  /\ UNCHANGED <<gvars, rvars, wh, werr, wseq, wr>>

\* wait (read_ready); the wait on the writer's own listening_evt, which a
\* writer never creates, returns at once.
W_WaitRR(w) ==
  /\ wpc[w] = "wait_rr"
  /\ LET r == WaitResult(read_ready, wnb[w], FALSE) IN
       /\ r # "block"
       /\ IF r = "ok"
            THEN /\ wpc' = [wpc EXCEPT ![w] = "connect"]
                 /\ UNCHANGED <<werr, read_ready, write_ready>>
            ELSE /\ wpc' = [wpc EXCEPT ![w] = "failed"]
                 /\ werr' = [werr EXCEPT ![w] = r]
                 /\ IF EventHolders(rpc, wpc') = {}
                      THEN read_ready' = FALSE /\ write_ready' = FALSE
                      ELSE UNCHANGED <<read_ready, write_ready>>
  /\ UNCHANGED <<owner, nreaders, pipes, rvars, wnb, wh, wseq, wr>>

\* What the connect loop does with the status of open_pipe.
ConnectStep(status) ==
  IF status = "SUCCESS" THEN "success"
  ELSE IF NoInstanceAvailable(status) THEN "retry"
  ELSE "fail"

W_Connect(w) ==
  /\ wpc[w] = "connect"
  /\ LET c == ConnectStep(OpenPipeStatus) IN
       CASE c = "success" ->
              \E p \in ListeningPipes :
                /\ pipes' = Connect(pipes, p, w)
                /\ wh' = [wh EXCEPT ![w] = p]
                /\ write_ready' = TRUE
                /\ wpc' = [wpc EXCEPT ![w] = "open"]
                /\ UNCHANGED <<werr, read_ready>>
         [] c = "retry" ->
              /\ wpc' = [wpc EXCEPT ![w] = "wait_rr"]
              /\ UNCHANGED <<pipes, wh, werr, read_ready, write_ready>>
         [] OTHER ->
              /\ wpc' = [wpc EXCEPT ![w] = "failed"]
              /\ werr' = [werr EXCEPT ![w] = ErrnoOf(OpenPipeStatus)]
              /\ IF EventHolders(rpc, wpc') = {}
                   THEN read_ready' = FALSE /\ write_ready' = FALSE
                   ELSE UNCHANGED <<read_ready, write_ready>>
              /\ UNCHANGED <<pipes, wh>>
  /\ UNCHANGED <<owner, nreaders, rvars, wnb, wseq, wr>>

\* One message of n bytes; byte k of writer w is <<w, k>>.
Msg(w, from, n) == [j \in 1..n |-> <<w, from + j>>]

W_Write(w, n) ==
  /\ wpc[w] = "open"
  /\ wseq[w] + n <= MaxBytes
  /\ IF PipeExists(wh[w])
       THEN /\ pipes' = [pipes EXCEPT ![wh[w]].q = Append(@, Msg(w, wseq[w], n))]
            /\ wseq' = [wseq EXCEPT ![w] = @ + n]
            /\ werr' = werr
       ELSE /\ werr' = [werr EXCEPT ![w] = "EPIPE"]
            /\ UNCHANGED <<pipes, wseq>>
  /\ UNCHANGED <<read_ready, write_ready, owner, nreaders, rvars, wpc, wnb, wh, wr>>

(***************************************************************************)
(* fhandler_fifo::raw_write, chunk by chunk.  W_Write above is the write   *)
(* of at most max_atomic_write bytes whose single chunk is transferred in  *)
(* full.                                                                   *)
(***************************************************************************)
\* len and chunk as set before the loop.
ChunkPlan(len, nonblock) ==
  IF len <= MaxAtomic THEN [len |-> len, chunk |-> len]
  ELSE IF nonblock THEN [len |-> MaxAtomic, chunk |-> MaxAtomic]
  ELSE [len |-> len, chunk |-> MaxAtomic]

W_WriteStart(w, len) ==
  /\ wpc[w] = "open"
  /\ wseq[w] < MaxBytes
  /\ IF len = 0
       THEN /\ wr' = [wr EXCEPT ![w] = [NoWrite EXCEPT !.pc = "done", !.ret = 0]]
            /\ wpc' = wpc
       ELSE /\ wr' = [wr EXCEPT ![w] =
                        [NoWrite EXCEPT !.pc = "run", !.req = len,
                                        !.len = ChunkPlan(len, wnb[w]).len,
                                        !.chunk = ChunkPlan(len, wnb[w]).chunk]]
            /\ wpc' = [wpc EXCEPT ![w] = "writing"]
  /\ UNCHANGED <<gvars, rvars, wnb, wh, werr, wseq>>

\* What NtWriteFile (and the wait for its completion on a blocking handle)
\* may report for a chunk of len1 bytes: the peer's end is gone; the chunk
\* or a part of it was taken; nothing was taken (non-blocking handle, no
\* room); the wait was interrupted by a signal; some other failure.
WriteOutcomes(w, len1) ==
  IF ~PipeExists(wh[w])
    THEN {[status |-> st, info |-> 0] : st \in {"PIPE_CLOSING", "PIPE_BROKEN"}}
    ELSE {[status |-> "SUCCESS", info |-> k] : k \in (IF wnb[w] THEN 0 ELSE 1)..len1}
           \cup (IF wnb[w] THEN {} ELSE {[status |-> "THREAD_SIGNALED", info |-> 0]})
           \cup {[status |-> "INSUFFICIENT_RESOURCES", info |-> 0]}

PipeIsClosed_Never(status) == FALSE

\* STATUS_PIPE_IS_CLOSED.
PipeIsClosed(status) == status \in {"PIPE_CLOSING", "PIPE_BROKEN", "PIPE_EMPTY"}

\* The branch of the if-chain after NtWriteFile.
ChunkClass(status) ==
  IF status = "THREAD_SIGNALED" THEN "signal"
  ELSE IF status = "SUCCESS" THEN "ok"
  ELSE IF PipeIsClosed(status) THEN "closed"
  ELSE "error"

\* __seterrno_from_nt_status for the remaining statuses.
WriteErrno(status) == "ENOMEM"

\* One iteration of the while loop.
W_Chunk(w) ==
  /\ wpc[w] = "writing"
  /\ wr[w].nbytes < wr[w].len
  /\ LET c == wr[w]
         left == c.len - c.nbytes
         len1 == IF left > c.chunk THEN c.chunk ELSE left
     IN \E o \in WriteOutcomes(w, len1) :
          LET cls == ChunkClass(o.status)
              now == IF cls = "ok" THEN o.info ELSE 0
              total == c.nbytes + now
          IN
            /\ wr' = [wr EXCEPT ![w] =
                        [c EXCEPT
                           !.status = o.status,
                           !.err = IF cls = "ok" /\ now = 0 THEN "EAGAIN"
                                   ELSE IF cls = "closed" THEN "EPIPE"
                                   ELSE IF cls = "error" THEN WriteErrno(o.status)
                                   ELSE @,
                           !.sigpipe = IF cls = "closed" THEN @ + 1 ELSE @,
                           !.ptr = IF cls = "ok" THEN @ + c.chunk ELSE @,
                           !.nbytes = total,
                           !.len = IF now = 0 THEN 0 ELSE @,
                           !.ret = IF total > 0 THEN total ELSE @,
                           !.nchunks = @ + 1,
                           !.sent = @ \o [j \in 1..now |-> c.ptr + j]]]
            /\ pipes' = IF now > 0
                          THEN [pipes EXCEPT ![wh[w]].q =
                                  Append(@, [j \in 1..now |->
                                               <<w, wseq[w] - c.nbytes + c.ptr + j>>])]
                          ELSE pipes
            /\ wseq' = [wseq EXCEPT ![w] = @ + now]
  /\ UNCHANGED <<read_ready, write_ready, owner, nreaders, rvars, wpc, wnb, wh, werr>>

\* After the loop: EINTR if a signal ended a write that wrote nothing.
W_WriteEnd(w) ==
  /\ wpc[w] = "writing"
  /\ ~(wr[w].nbytes < wr[w].len)
  /\ LET e1 == IF wr[w].status = "THREAD_SIGNALED" /\ wr[w].ret < 0
                 THEN "EINTR" ELSE wr[w].err
     IN /\ wr' = [wr EXCEPT ![w].pc = "done", ![w].err = e1]
        /\ werr' = [werr EXCEPT ![w] = IF e1 # "none" THEN e1 ELSE @]
  /\ wpc' = [wpc EXCEPT ![w] = "open"]
  /\ UNCHANGED <<gvars, rvars, wnb, wh, wseq>>

W_Close(w) ==
  /\ wpc[w] = "open"
  /\ wpc' = [wpc EXCEPT ![w] = "closed"]
  /\ pipes' = CloseClient(pipes, wh[w])
  /\ IF EventHolders(rpc, wpc') = {}
       THEN read_ready' = FALSE /\ write_ready' = FALSE
       ELSE UNCHANGED <<read_ready, write_ready>>
  /\ UNCHANGED <<owner, nreaders, rvars, wnb, wh, werr, wseq, wr>>


(***************************************************************************)
(* fhandler_fifo::raw_read and hit_eof.                                    *)
(***************************************************************************)
Min(a, b) == IF a < b THEN a ELSE b

MayRead_Always(cur, me) == TRUE

\* Only the owner may read.
MayRead(cur, me) == ~(cur # me)

R_ReadStart(e, len) ==
  /\ rpc[e] = "open"
  /\ IF MayRead(owner, Me(e))
       THEN /\ rpc' = [rpc EXCEPT ![e] = "rd_eof"]
            /\ rd' = [rd EXCEPT ![e] = [len |-> len, i |-> 0, retry |-> TRUE]]
            /\ rres' = [rres EXCEPT ![e] = NoRes]
       ELSE /\ rres' = [rres EXCEPT ![e] = [NoRes EXCEPT !.n = -1, !.err = "ENOTSUP"]]
            /\ UNCHANGED <<rpc, rd>>
  /\ UNCHANGED <<gvars, rflag, rh, fc, nconn, cancel_evt, listening_evt,
                 fclock, tpc, tstatus, tps, hist, wvars>>

EofSample_Always(n) == TRUE

\* One sample of hit_eof under the table lock.
EofSample(n) == n = 0

\* hit_eof: a zero sample is repeated once after Sleep (1).
R_HitEof(e) ==
  /\ rpc[e] = "rd_eof"
  /\ fclock[e] = "free"
  /\ IF EofSample(nconn[e])
       THEN IF rd[e].retry
              THEN /\ rd' = [rd EXCEPT ![e].retry = FALSE]
                   /\ UNCHANGED <<rpc, rres>>
              ELSE /\ rres' = [rres EXCEPT ![e] = [NoRes EXCEPT !.err = "eof"]]
                   /\ rpc' = [rpc EXCEPT ![e] = "open"]
                   /\ rd' = rd
       ELSE /\ rpc' = [rpc EXCEPT ![e] = "rd_lock"]
            /\ UNCHANGED <<rd, rres>>
  /\ UNCHANGED <<gvars, rflag, rh, fc, nconn, cancel_evt, listening_evt,
                 fclock, tpc, tstatus, tps, hist, wvars>>

\* fifo_client_lock () before the scan.
R_Lock(e) ==
  /\ rpc[e] = "rd_lock"
  /\ fclock[e] = "free"
  /\ fclock' = [fclock EXCEPT ![e] = "read"]
  /\ rpc' = [rpc EXCEPT ![e] = "rd_scan"]
  /\ rd' = [rd EXCEPT ![e].i = 1]
  /\ UNCHANGED <<gvars, rflag, rh, fc, nconn, cancel_evt, listening_evt,
                 tpc, tstatus, tps, rres, hist, wvars>>

Polled_Any(ent) == TRUE

\* Which entries the scan polls.
Polled(ent) == ent.state = "connected"

\* NtReadFile on a non-blocking message-mode server end.
ReadStatus(pp) ==
  IF Len(pp.q) > 0 THEN "SUCCESS"
  ELSE IF pp.copen THEN "PIPE_EMPTY"
  ELSE "PIPE_BROKEN"

ScanClass_BrokenSkipped(status) ==
  IF status \in {"SUCCESS", "BUFFER_OVERFLOW"} THEN "data"
  ELSE IF status \in {"PIPE_EMPTY", "PIPE_BROKEN"} THEN "skip"
  ELSE "error"

\* The switch on the status of NtReadFile.
ScanClass(status) ==
  IF status \in {"SUCCESS", "BUFFER_OVERFLOW"} THEN "data"
  ELSE IF status = "PIPE_EMPTY" THEN "skip"
  ELSE IF status = "PIPE_BROKEN" THEN "invalid"
  ELSE "error"

TakeBytes_LastMessage(q, len) == SubSeq(q[Len(q)], 1, Min(len, Len(q[Len(q)])))

\* The bytes one NtReadFile takes: at most len bytes of the first message.
TakeBytes(q, len) == SubSeq(q[1], 1, Min(len, Len(q[1])))
RestQueue(q, len) ==
  IF Len(q[1]) > len THEN <<SubSeq(q[1], len + 1, Len(q[1]))>> \o Tail(q)
                     ELSE Tail(q)

\* One iteration of the for loop, table lock held.
R_Scan(e) ==
  /\ rpc[e] = "rd_scan"
  /\ rd[e].i <= Len(fc[e])
  /\ LET i == rd[e].i
         h == fc[e][i].h
         st == ScanClass(ReadStatus(pipes[h]))
     IN
       IF ~Polled(fc[e][i])
         THEN /\ rd' = [rd EXCEPT ![e].i = i + 1]
              /\ UNCHANGED <<pipes, fc, nconn, rres, rpc, fclock, hist>>
       ELSE IF st = "data"
         THEN LET data == TakeBytes(pipes[h].q, rd[e].len) IN
              /\ pipes' = [pipes EXCEPT ![h].q = RestQueue(@, rd[e].len)]
              /\ rres' = [rres EXCEPT ![e] = [n |-> Len(data), data |-> data,
                                              src |-> h, err |-> "none"]]
              /\ hist' = [hist EXCEPT ![pipes[h].client] = @ \o data]
              /\ rpc' = [rpc EXCEPT ![e] = "open"]
              /\ fclock' = [fclock EXCEPT ![e] = "free"]
              /\ UNCHANGED <<fc, nconn, rd>>
       ELSE IF st = "skip"
         THEN /\ rd' = [rd EXCEPT ![e].i = i + 1]
              /\ UNCHANGED <<pipes, fc, nconn, rres, rpc, fclock, hist>>
       ELSE /\ fc' = [fc EXCEPT ![e][i].state = "invalid"]
            /\ nconn' = [nconn EXCEPT ![e] = @ - 1]
            /\ rd' = [rd EXCEPT ![e].i = i + 1]
            /\ UNCHANGED <<pipes, rres, rpc, fclock, hist>>
  /\ UNCHANGED <<read_ready, write_ready, owner, nreaders, rflag, rh,
                 cancel_evt, listening_evt, tpc, tstatus, tps, wvars>>

\* __seterrno_from_nt_status for a status the switch does not name.
ReadErrno(status) == "ENOMEM"

\* One iteration of the for loop in which NtReadFile fails with a status
\* the switch does not name (default:): the entry becomes invalid, the
\* count is decremented, the lock is released and the read fails.
R_ScanFault(e) ==
  /\ rpc[e] = "rd_scan"
  /\ rd[e].i <= Len(fc[e])
  /\ Polled(fc[e][rd[e].i])
  /\ fc' = [fc EXCEPT ![e][rd[e].i].state = "invalid"]
  /\ nconn' = [nconn EXCEPT ![e] = @ - 1]
  /\ fclock' = [fclock EXCEPT ![e] = "free"]
  /\ rres' = [rres EXCEPT ![e] =
                [NoRes EXCEPT !.n = -1, !.err = ReadErrno("INSUFFICIENT_RESOURCES")]]
  /\ rpc' = [rpc EXCEPT ![e] = "open"]
  /\ UNCHANGED <<gvars, rflag, rh, cancel_evt, listening_evt, tpc, tstatus,
                 tps, rd, hist, wvars>>

\* No entry had data: EAGAIN if non-blocking, else Sleep (1) and loop.
R_ScanEnd(e) ==
  /\ rpc[e] = "rd_scan"
  /\ rd[e].i > Len(fc[e])
  /\ fclock' = [fclock EXCEPT ![e] = "free"]
  /\ IF rflag[e].nb
       THEN /\ rres' = [rres EXCEPT ![e] = [NoRes EXCEPT !.n = -1, !.err = "EAGAIN"]]
            /\ rpc' = [rpc EXCEPT ![e] = "open"]
            /\ rd' = rd
       ELSE /\ rpc' = [rpc EXCEPT ![e] = "rd_eof"]
            /\ rd' = [rd EXCEPT ![e].retry = TRUE, ![e].i = 0]
            /\ rres' = rres
  /\ UNCHANGED <<gvars, rflag, rh, fc, nconn, cancel_evt, listening_evt,
                 tpc, tstatus, tps, hist, wvars>>

(***************************************************************************)
(* fhandler_fifo::close (reader) and fhandler_fifo::dup.                   *)
(***************************************************************************)
\* cancel_reader_thread: SetEvent (cancel_evt) ...
C_Cancel(e) ==
  /\ rpc[e] = "open"
  /\ cancel_evt' = [cancel_evt EXCEPT ![e] = TRUE]
  /\ rpc' = [rpc EXCEPT ![e] = "c_join"]
  /\ UNCHANGED <<gvars, rflag, rh, fc, nconn, listening_evt, fclock, tpc,
                 tstatus, tps, rd, rres, hist, wvars>>

Joined_NoWait(t) == TRUE

\* WaitForSingleObject (sync_thr, INFINITE): the thread function returned.
Joined(t) == t = "done"

\* ... and the wait for sync_thr; then the table's handles are closed.
C_Join(e) ==
  /\ rpc[e] = "c_join"
  /\ Joined(tpc[e])
  /\ fclock[e] = "free"
  /\ pipes' = CloseSrvSet(pipes, Handles(fc[e]), e)
  /\ rpc' = [rpc EXCEPT ![e] = "c_dec"]
  /\ UNCHANGED <<read_ready, write_ready, owner, nreaders, rflag, rh, fc,
                 nconn, cancel_evt, listening_evt, fclock, tpc, tstatus, tps, rd,
                 rres, hist, wvars>>

C_Dec(e) ==
  /\ rpc[e] = "c_dec"
  /\ nreaders' = nreaders - 1
  /\ read_ready' = IF nreaders' = 0 THEN FALSE ELSE read_ready
  /\ rpc' = [rpc EXCEPT ![e] = "c_owner"]
  /\ UNCHANGED <<write_ready, owner, pipes, rflag, rh, fc, nconn, cancel_evt,
                 listening_evt, fclock, tpc, tstatus, tps, rd, rres, hist,
                 wvars>>

ReleaseOwner_Always(cur, me) == NoOwner

\* close gives the ownership up only if it holds it.
ReleaseOwner(cur, me) == IF cur = me THEN NoOwner ELSE cur

C_Owner(e) ==
  /\ rpc[e] = "c_owner"
  /\ owner' = ReleaseOwner(owner, Me(e))
  /\ rpc' = [rpc EXCEPT ![e] = "c_unmap"]
  /\ UNCHANGED <<read_ready, write_ready, nreaders, pipes, rflag, rh, fc,
                 nconn, cancel_evt, listening_evt, fclock, tpc, tstatus, tps, rd,
                 rres, hist, wvars>>

\* The section, the two named events and (duplexer) the io handle.
C_Unmap(e) ==
  /\ rpc[e] = "c_unmap"
  /\ rpc' = [rpc EXCEPT ![e] = "closed"]
  /\ pipes' = IF rh[e] # 0 THEN CloseClient(pipes, rh[e]) ELSE pipes
  /\ IF ShmHolders(rpc') = {}
       THEN owner' = NoOwner /\ nreaders' = 0
       ELSE UNCHANGED <<owner, nreaders>>
  /\ IF EventHolders(rpc', wpc) = {}
       THEN read_ready' = FALSE /\ write_ready' = FALSE
       ELSE UNCHANGED <<read_ready, write_ready>>
  /\ UNCHANGED <<rflag, rh, fc, nconn, cancel_evt, listening_evt, fclock,
                 tpc, tstatus, tps, rd, rres, hist, wvars>>

\* dup of a (non-duplex) reader e into d: the clone carries the table and
\* the count, every table handle is duplicated, the reader count is
\* incremented and d gets its own fifo_reader thread.
R_Dup(e, d) ==
  /\ rpc[e] = "open"
  /\ ~rflag[e].dx
  /\ rpc[d] = "none"
  /\ fclock[e] = "free"
  /\ rpc' = [rpc EXCEPT ![d] = "open"]
  /\ rflag' = [rflag EXCEPT ![d] = [rflag[e] EXCEPT !.src = e]]
  /\ fc' = [fc EXCEPT ![d] = fc[e]]
  /\ nconn' = [nconn EXCEPT ![d] = nconn[e]]
  /\ pipes' = [p \in PipeIds |->
                 IF p \in Handles(fc[e])
                   THEN [pipes[p] EXCEPT !.srv = @ \cup {d}]
                   ELSE pipes[p]]
  /\ nreaders' = nreaders + 1
  /\ tpc' = [tpc EXCEPT ![d] = "claim"]
  /\ UNCHANGED <<read_ready, write_ready, owner, rh, cancel_evt,
                 listening_evt, fclock, tstatus, tps, rd, rres, hist,
                 wvars>>

\* fixup_after_fork: the child's copy d of the (non-duplex) reader e keeps
\* the table and the count, inherits every table handle, counts itself as
\* a reader, takes the child's process id into its identity and starts its
\* own fifo_reader thread.
R_Fork(e, d) ==
  /\ rpc[e] = "open"
  /\ ~rflag[e].dx
  /\ rpc[d] = "none"
  /\ fclock[e] = "free"
  /\ rflag[e].winpid < MaxPid
  /\ rpc' = [rpc EXCEPT ![d] = "open"]
  /\ rflag' = [rflag EXCEPT ![d] = [rflag[e] EXCEPT !.src = e, !.winpid = @ + 1]]
  /\ fc' = [fc EXCEPT ![d] = fc[e]]
  /\ nconn' = [nconn EXCEPT ![d] = nconn[e]]
  /\ pipes' = [p \in PipeIds |->
                 IF p \in Handles(fc[e])
                   THEN [pipes[p] EXCEPT !.srv = @ \cup {d}]
                   ELSE pipes[p]]
  /\ nreaders' = nreaders + 1
  /\ tpc' = [tpc EXCEPT ![d] = "claim"]
  /\ UNCHANGED <<read_ready, write_ready, owner, rh, cancel_evt,
                 listening_evt, fclock, tstatus, tps, rd, rres, hist,
                 wvars>>

\* fixup_after_exec (no close-on-exec): the endpoint lives on in the new
\* process image with its table and handles; the old image's fifo_reader
\* thread is gone wherever it was, me.winpid is the new process id, the
\* events of the thread are new and a new fifo_reader thread starts.  The
\* reader count is not touched.
R_Exec(e) ==
  /\ rpc[e] = "open"
  /\ ~rflag[e].dx
  /\ fclock[e] = "free"
  /\ rflag[e].winpid < MaxPid
  /\ rflag' = [rflag EXCEPT ![e].winpid = @ + 1]
  /\ cancel_evt' = [cancel_evt EXCEPT ![e] = FALSE]
  /\ tpc' = [tpc EXCEPT ![e] = "claim"]
  /\ tstatus' = [tstatus EXCEPT ![e] = "none"]
  /\ tps' = [tps EXCEPT ![e] = "none"]
  /\ UNCHANGED <<gvars, rpc, rh, fc, nconn, listening_evt, fclock, rd, rres,
                 hist, wvars>>

(***************************************************************************)
(* The complete system.                                                    *)
(***************************************************************************)
ReaderOpen(e) ==
  \/ \E nb \in BOOLEAN, dx \in BOOLEAN : RdOpenArm(e, nb, dx)
  \/ RdOpenCreate(e)
  \/ RdOpenCheck(e)
  \/ RdOpenWait(e)
  \/ RdOpenDuplex(e)
  \/ RdOpenInc(e)
  \/ RdFailCancel(e)
  \/ RdFailJoin(e)
  \/ RdFailUnmap(e)

Listener(e) ==
  \/ T_Claim(e)
  \/ T_Idle(e)
  \/ T_Accept(e)
  \/ T_Listen(e)
  \/ T_WaitConn(e)
  \/ T_WaitCancel(e)
  \/ T_Post(e)

ReaderRead(e) ==
  \/ \E len \in 1..MaxReadLen : R_ReadStart(e, len)
  \/ R_HitEof(e)
  \/ R_Lock(e)
  \/ R_Scan(e)
  \/ R_ScanEnd(e)

ReaderClose(e) ==
  \/ C_Cancel(e)
  \/ C_Join(e)
  \/ C_Dec(e)
  \/ C_Owner(e)
  \/ C_Unmap(e)

WriterOpen(w) ==
  \/ \E nb \in BOOLEAN : W_Start(w, nb)
  \/ W_WaitRR(w)
  \/ W_Connect(w)

WriterIO(w) ==
  \/ \E n \in 1..MaxMsg : W_Write(w, n)
  \/ W_Close(w)

WriterWrite(w) ==
  \/ \E len \in 0..MaxWriteLen : W_WriteStart(w, len)
  \/ W_Chunk(w)
  \/ W_WriteEnd(w)

Next ==
  \/ \E e \in Readers : ReaderOpen(e) \/ Listener(e) \/ ReaderRead(e) \/ ReaderClose(e)
  \/ \E e \in Readers, d \in Readers : R_Dup(e, d) \/ R_Fork(e, d)
  \/ \E e \in Readers : R_Exec(e)
  \/ \E e \in Readers : T_WaitFail(e) \/ R_ScanFault(e)
  \/ \E w \in Writers : WriterOpen(w) \/ WriterIO(w) \/ WriterWrite(w)

Spec == Init /\ [][Next]_vars


(***************************************************************************)
(* Scenarios.  Each one is the system restricted to some endpoints and     *)
(* operations, so that it can be explored exhaustively.                    *)
(***************************************************************************)
\* Reader open without O_RDWR.
RdOpenND(e) ==
  \/ \E nb \in BOOLEAN : RdOpenArm(e, nb, FALSE)
  \/ RdOpenCreate(e)
  \/ RdOpenCheck(e)
  \/ RdOpenWait(e)
  \/ RdOpenInc(e)
  \/ RdFailCancel(e)
  \/ RdFailJoin(e)
  \/ RdFailUnmap(e)

Opened(e) == rpc[e] \in {"open", "rd_eof", "rd_lock", "rd_scan"}
Independent(e) == rflag[e].src = "none"
ShmCreated(e) == rpc[e] \notin {"none", "o_create"}

\* Two independent readers and one writer: open and close.
NextOpen ==
  \/ \E e \in Readers : RdOpenND(e) \/ Listener(e) \/ ReaderClose(e)
  \/ \E w \in {"w1"} : WriterOpen(w) \/ W_Close(w)

SpecOpen == Init /\ [][NextOpen]_vars

\* C1: two independent reader opens of the FIFO never both succeed: while
\* one independent reader endpoint is open, no other independent reader
\* endpoint is open.
C1_SingleReader ==
  \A e1 \in Readers, e2 \in Readers :
    (e1 # e2 /\ Independent(e1) /\ Independent(e2))
      => ~(Opened(e1) /\ Opened(e2))

\* C9: a writer that has seen read_ready finds the reader's section created,
\* and no writer open fails because the pipe name does not exist yet.
C9_ReaderBeforeWriter ==
  \A w \in Writers :
    /\ wpc[w] = "connect" => \E e \in Readers : ShmCreated(e)
    /\ ~(wpc[w] = "failed" /\ werr[w] = "ENOENT")

\* The second half of C9 alone.
C9_NoPermanentFailure ==
  \A w \in Writers : ~(wpc[w] = "failed" /\ werr[w] = "ENOENT")

\* C7: a non-blocking open for writing with read_ready unsignalled leaves
\* the wait at once with ENXIO; it is never blocked in the wait; and an open
\* for writing succeeds only by connecting to an instance a reader's
\* listener has listening.
C7_NonBlockingOpen ==
  /\ [][\A w \in Writers :
          /\ (wpc[w] = "wait_rr" /\ wnb[w] /\ ~read_ready /\ wpc'[w] # "wait_rr")
               => (wpc'[w] = "failed" /\ werr'[w] = "ENXIO")
          /\ (wpc[w] # "open" /\ wpc'[w] = "open")
               => (wh'[w] \in ListeningPipes /\ pipes'[wh'[w]].client = w)]_vars
  /\ [](\A w \in Writers : (wpc[w] = "wait_rr" /\ wnb[w]) => ENABLED W_WaitRR(w))

C7_Witness ==
  \E w \in Writers : wnb[w] /\ wpc[w] = "failed" /\ werr[w] = "ENXIO"


\* The listener of an endpoint that finds the owner record empty.
ListenerOwner(e) ==
  \/ T_Claim(e)
  \/ T_Accept(e)
  \/ T_Listen(e)
  \/ T_WaitConn(e)
  \/ T_WaitCancel(e)
  \/ T_Post(e)

\* A reader open that nothing makes fail.
RdOpenOk(e) ==
  \/ \E nb \in BOOLEAN : RdOpenArm(e, nb, FALSE)
  \/ RdOpenCreate(e)
  \/ RdOpenCheck(e)
  \/ RdOpenWait(e)
  \/ RdOpenInc(e)

\* One reader, plain or duplex, and two writers: open, write, close.
NextCancel ==
  \/ \E e \in {"r1"} : ReaderOpen(e) \/ ListenerOwner(e) \/ ReaderClose(e)
  \/ \E w \in {"w1", "w2"} : WriterOpen(w) \/ W_Write(w, 1) \/ W_Close(w)

SpecCancel == Init /\ [][NextCancel]_vars

\* A step of the cancellation branch of the listener.
CancelStep(e) ==
  tpc[e] = "post" /\ tstatus[e] = "THREAD_IS_TERMINATING" /\ tpc'[e] = "done"

Recorded(e) ==
  /\ Len(fc'[e]) = Len(fc[e])
  /\ Last(fc'[e]).state = "connected"
  /\ nconn'[e] = nconn[e] + 1

Discarded(e) == Len(fc'[e]) < Len(fc[e])

PendingPeer(e) == pipes[Last(fc[e]).h].client

\* C10 (as claimed): when the listener's wait was ended by cancellation, a
\* pending entry to which a genuine writer has connected is recorded as
\* connected, and it is discarded only if the only peer is the throwaway
\* client or nobody.
C10_CancelRecordsWriter ==
  [][\A e \in Readers :
       CancelStep(e) =>
         /\ PendingPeer(e) \notin {"none", "bogus"} => Recorded(e)
         /\ Discarded(e) => PendingPeer(e) \in {"none", "bogus"}]_vars

\* A genuine peer that is still there: it holds its end open or has left
\* data in the instance.
PeerPresent(e) ==
  /\ PendingPeer(e) \notin {"none", "bogus"}
  /\ pipes[Last(fc[e]).h].copen \/ Len(pipes[Last(fc[e]).h].q) > 0

\* C10 (amended): when the listener's wait was ended by cancellation, a
\* pending entry whose genuine writer still holds the connection open, or
\* has left data in it, is recorded as connected before the thread ends; the
\* entry is discarded only if the peer is the throwaway client, nobody, or a
\* writer that has already closed without leaving data.
C10_CancelRecordsPresentWriter ==
  [][\A e \in Readers :
       CancelStep(e) =>
         /\ PeerPresent(e) => Recorded(e)
         /\ Discarded(e) => ~PeerPresent(e)]_vars

\* The cancellation branch has recorded a connection made under its nose.
C10_Witness ==
  \E e \in Readers :
    /\ tpc[e] = "done"
    /\ tps[e] \in {"CONNECTED", "INPUT_AVAILABLE"}
    /\ Len(fc[e]) > 0
    /\ Last(fc[e]).state = "connected"
    /\ pipes[Last(fc[e]).h].client \in Writers


(***************************************************************************)
(* One reader that reads, two blocking writers that write and close.       *)
(***************************************************************************)
ReadWriters == {"w1", "w2"}

ReadLoop(e) == R_HitEof(e) \/ R_Lock(e) \/ R_Scan(e) \/ R_ScanEnd(e)

NextRead ==
  \/ \E e \in {"r1"} : RdOpenOk(e) \/ ListenerOwner(e) \/ ReaderRead(e) \/ ReaderClose(e)
  \/ \E w \in ReadWriters :
       W_Start(w, FALSE) \/ W_WaitRR(w) \/ W_Connect(w) \/ WriterIO(w)

\* Every thread that can run does run: the listener, a read in progress, a
\* close in progress, an open in progress.
FairRead ==
  /\ WF_vars(ListenerOwner("r1"))
  /\ WF_vars(ReadLoop("r1"))
  /\ WF_vars(RdOpenCreate("r1") \/ RdOpenCheck("r1") \/ RdOpenWait("r1") \/ RdOpenInc("r1"))
  /\ WF_vars(C_Join("r1") \/ C_Dec("r1") \/ C_Owner("r1") \/ C_Unmap("r1"))
  /\ \A w \in ReadWriters : WF_vars(W_WaitRR(w) \/ W_Connect(w))

SpecRead == Init /\ [][NextRead]_vars /\ FairRead

(***************************************************************************)
(* The same reader and writers with every thread scheduled fairly: the     *)
(* reader opens blocking, its listener accepts, the writers write single   *)
(* bytes and close, and the reader reads one byte at a time.               *)
(***************************************************************************)
NextEof ==
  \/ \E e \in {"r1"} :
       \/ RdOpenArm(e, FALSE, FALSE) \/ RdOpenCreate(e) \/ RdOpenCheck(e)
       \/ RdOpenWait(e) \/ RdOpenInc(e)
       \/ T_Claim(e) \/ T_Accept(e) \/ T_Listen(e) \/ T_WaitConn(e) \/ T_Post(e)
       \/ R_ReadStart(e, 1) \/ ReadLoop(e)
  \/ \E w \in ReadWriters :
       W_Start(w, FALSE) \/ W_WaitRR(w) \/ W_Connect(w) \/ W_Write(w, 1) \/ W_Close(w)

\* The listener thread, a read in progress and a writer's open in progress
\* are each scheduled as long as they can take a step.
FairEof ==
  /\ WF_vars(T_Claim("r1") \/ T_Accept("r1") \/ T_Listen("r1") \/ T_WaitConn("r1") \/ T_Post("r1"))
  /\ WF_vars(ReadLoop("r1"))
  /\ \A w \in ReadWriters : WF_vars(W_WaitRR(w) \/ W_Connect(w))

SpecEof == Init /\ [][NextEof]_vars /\ FairEof

InRead(e) == rpc[e] \in {"rd_eof", "rd_lock", "rd_scan"}
NoWriterLeft == \A w \in ReadWriters : wpc[w] \in {"closed", "failed"}
NothingQueued(e) == \A i \in 1..Len(fc[e]) : pipes[fc[e][i].h].q = <<>>
ReturnedEof(e) == rpc[e] = "open" /\ rres[e].n = 0 /\ rres[e].err = "eof"

\* C4: once every writer has closed and none is opening, a blocking read of
\* the owner returns; it returns 0 bytes as soon as no data is queued; and a
\* read never returns data from an entry that is not in state connected.
C4_EofConvergence ==
  /\ \A e \in {"r1"} :
       (InRead(e) /\ ~rflag[e].nb /\ NoWriterLeft) ~> (rpc[e] = "open")
  /\ \A e \in {"r1"} :
       (InRead(e) /\ ~rflag[e].nb /\ NoWriterLeft /\ NothingQueued(e))
          ~> ReturnedEof(e)
  /\ [][\A e \in Readers :
          (rres'[e] # rres[e] /\ rres'[e].n > 0)
            => \E i \in 1..Len(fc[e]) :
                 fc[e][i].h = rres'[e].src /\ fc[e][i].state = "connected"]_vars

\* A blocking read has returned 0 after a writer was connected, had its
\* data read and closed.
C4_Witness ==
  /\ ReturnedEof("r1")
  /\ ~rflag["r1"].nb
  /\ NoWriterLeft
  /\ \E w \in ReadWriters : wpc[w] = "closed" /\ Len(hist[w]) > 0
  /\ \E i \in 1..Len(fc["r1"]) : fc["r1"][i].state = "invalid"

\* C6: the bytes of one read come from one connection, the first polled
\* entry that has data, and the bytes delivered from a connection are the
\* bytes its writer wrote, in order.
C6_PerConnectionOrder ==
  /\ [](\A w \in Writers : \A k \in 1..Len(hist[w]) : hist[w][k] = <<w, k>>)
  /\ [](\A e \in Readers :
          rres[e].n > 0 =>
            /\ rres[e].n = Len(rres[e].data)
            /\ \E w \in Writers : \A k \in 1..rres[e].n : rres[e].data[k][1] = w)
  /\ [][\A e \in Readers :
          rpc[e] = "rd_scan" /\ rd[e].i <= Len(fc[e]) =>
            LET ent == fc[e][rd[e].i] IN
              /\ (rres'[e] # rres[e] /\ rres'[e].n > 0)
                   => /\ ent.state = "connected"
                      /\ rres'[e].src = ent.h
                      /\ rres'[e].n <= rd[e].len
              /\ rd'[e].i > rd[e].i
                   => (ent.state # "connected" \/ pipes[ent.h].q = <<>>)]_vars

\* Data of both connections has been delivered, the last read having taken
\* part of a longer message.
C6_Witness ==
  /\ \A w \in ReadWriters : Len(hist[w]) > 0
  /\ \E e \in Readers : rres[e].n > 0 /\ \E p \in PipeIds : Len(pipes[p].q) > 0

(***************************************************************************)
(* A reader that opens non-blocking, its duplicate, and one writer: both   *)
(* endpoints have a listener, read and close; every thread is scheduled    *)
(* fairly.                                                                 *)
(***************************************************************************)
NextDup ==
  \/ \E e \in {"r1"} :
       \/ RdOpenArm(e, TRUE, FALSE) \/ RdOpenCreate(e) \/ RdOpenCheck(e)
       \/ RdOpenWait(e) \/ RdOpenInc(e)
  \/ R_Dup("r1", "r2")
  \/ \E e \in Readers :
       Listener(e) \/ R_ReadStart(e, 1) \/ ReadLoop(e) \/ ReaderClose(e)
  \/ \E w \in {"w1"} :
       W_Start(w, FALSE) \/ W_WaitRR(w) \/ W_Connect(w) \/ W_Write(w, 1) \/ W_Close(w)

\* A listener, a read in progress, a close in progress and a writer's open
\* in progress run as long as they can take a step.
FairDup ==
  /\ \A e \in Readers : WF_vars(Listener(e))
  /\ \A e \in Readers : WF_vars(ReadLoop(e))
  /\ \A e \in Readers : WF_vars(C_Join(e) \/ C_Dec(e) \/ C_Owner(e) \/ C_Unmap(e))
  /\ WF_vars(W_WaitRR("w1") \/ W_Connect("w1"))

SpecDup == Init /\ [][NextDup]_vars /\ FairDup

\* The step in which d becomes a duplicate of e.
DupStep(e, d) == rpc[d] = "none" /\ rpc'[d] = "open" /\ rflag'[d].src = e

\* C3: a duplicate starts with the table and the connected-count of its
\* source, and once the source endpoint is closed a duplicate that stays
\* open eventually becomes the owner.
C3_DupHandOver ==
  /\ [][\A e \in Readers, d \in Readers :
          DupStep(e, d) => fc'[d] = fc[e] /\ nconn'[d] = nconn[e]]_vars
  /\ \A d \in Readers :
       (rflag[d].src # "none" /\ Opened(d) /\ rpc[rflag[d].src] = "closed")
         ~> (owner = Me(d) \/ ~Opened(d))

\* The result of a refused read.
ReadFails(e) == rres'[e] = [NoRes EXCEPT !.n = -1, !.err = "ENOTSUP"]

\* C8: a read started on an endpoint that is not the owner fails with
\* ENOTSUP, delivers nothing, and leaves every handler table, every
\* connected-count, the owner record and the pipe instances as they were.
C8_OwnerOnlyRead ==
  [][\A e \in Readers :
       (rpc[e] = "open" /\ owner # Me(e)
          /\ (rres'[e] # rres[e] \/ rpc'[e] \in {"rd_eof", "rd_lock", "rd_scan"}))
         => /\ ReadFails(e)
            /\ rpc'[e] = "open"
            /\ fc' = fc /\ nconn' = nconn /\ owner' = owner /\ pipes' = pipes]_vars

\* A non-owner that holds a connected writer in its table has had a read
\* refused.
C8_Witness ==
  \E e \in Readers :
    /\ rpc[e] = "open" /\ owner # Me(e)
    /\ rres[e].err = "ENOTSUP" /\ rres[e].n = -1
    /\ nconn[e] > 0

(***************************************************************************)
(* One blocking reader that stays open and three writers that open: one    *)
(* writer more than the handler table holds.                               *)
(***************************************************************************)
NextCap ==
  \/ \E e \in {"r1"} :
       \/ RdOpenArm(e, FALSE, FALSE) \/ RdOpenCreate(e) \/ RdOpenCheck(e)
       \/ RdOpenWait(e) \/ RdOpenInc(e)
       \/ T_Claim(e) \/ T_Accept(e) \/ T_Listen(e) \/ T_WaitConn(e) \/ T_Post(e)
  \/ \E w \in Writers : WriterOpen(w)

\* The listener, the reader's open and each writer's open run as long as
\* they can take a step.
FairCap ==
  /\ WF_vars(T_Claim("r1") \/ T_Accept("r1") \/ T_Listen("r1") \/ T_WaitConn("r1") \/ T_Post("r1"))
  /\ WF_vars(RdOpenCreate("r1") \/ RdOpenCheck("r1") \/ RdOpenWait("r1") \/ RdOpenInc("r1"))
  /\ \A w \in Writers : WF_vars(W_WaitRR(w) \/ W_Connect(w))

SpecCap == Init /\ [][NextCap]_vars /\ FairCap

\* A writer inside the connect loop of open.
Opening(w) == wpc[w] \in {"wait_rr", "connect"}

\* The owning reader's table holds MAX_CLIENTS connected writers.
Full(e) == Opened(e) /\ owner = Me(e) /\ nconn[e] = MAX_CLIENTS

\* C2: when MAX_CLIENTS writers are connected to the owning reader, the
\* open of a further writer terminates: it does not stay in the connect
\* loop forever.
C2_CapacityFails ==
  \A w \in Writers :
    (Opening(w) /\ \E e \in Readers : Full(e)) ~> ~Opening(w)


(***************************************************************************)
(* One reader that stays open and two writers that start to open only      *)
(* once the reader is open and is the owner.                               *)
(***************************************************************************)
VisWriters == {"w1", "w2"}

OwnerOpen(e) == Opened(e) /\ owner = Me(e)

NextVis ==
  \/ \E e \in {"r1"} :
       \/ (\E nb \in BOOLEAN : RdOpenArm(e, nb, FALSE))
       \/ RdOpenCreate(e) \/ RdOpenCheck(e) \/ RdOpenWait(e) \/ RdOpenInc(e)
       \/ T_Claim(e) \/ T_Accept(e) \/ T_Listen(e) \/ T_WaitConn(e) \/ T_Post(e)
  \/ \E w \in VisWriters :
       \/ (OwnerOpen("r1") /\ \E nb \in BOOLEAN : W_Start(w, nb))
       \/ W_WaitRR(w) \/ W_Connect(w) \/ W_Write(w, 1)

FairVis ==
  /\ WF_vars(T_Claim("r1") \/ T_Accept("r1") \/ T_Listen("r1") \/ T_WaitConn("r1") \/ T_Post("r1"))
  /\ WF_vars(RdOpenCreate("r1") \/ RdOpenCheck("r1") \/ RdOpenWait("r1") \/ RdOpenInc("r1"))
  /\ \A w \in VisWriters : WF_vars(W_WaitRR(w) \/ W_Connect(w))

SpecVis == Init /\ [][NextVis]_vars /\ FairVis

\* Writer w's instance is an entry of e's table in state connected.
HasEntry(e, w) ==
  \E i \in 1..Len(fc[e]) : fc[e][i].h = wh[w] /\ fc[e][i].state = "connected"

\* C5: every writer that opens against the open owning reader eventually
\* has its open succeed and its own connected entry in the reader's table,
\* and once all writers have started, the connected-count eventually
\* equals their number.
C5_ConnectionVisibility ==
  /\ \A w \in VisWriters : Opening(w) ~> (wpc[w] = "open" /\ HasEntry("r1", w))
  /\ (\A w \in VisWriters : wpc[w] # "init") ~> (nconn["r1"] = Cardinality(VisWriters))

(***************************************************************************)
(* Two reader endpoints, each opened independently or made from the other  *)
(* by dup or fork, exec of an endpoint, close, and one writer.             *)
(***************************************************************************)
NextOwn ==
  \/ \E e \in Readers : RdOpenND(e) \/ Listener(e) \/ ReaderClose(e) \/ R_Exec(e)
  \/ \E e \in Readers, d \in Readers : R_Dup(e, d) \/ R_Fork(e, d)
  \/ \E w \in {"w1"} : W_Start(w, FALSE) \/ W_WaitRR(w) \/ W_Connect(w) \/ W_Close(w)

SpecOwn == Init /\ [][NextOwn]_vars

\* The owner record goes from empty to e's identity, by e's listener.
ClaimBy(e) == owner = NoOwner /\ owner' = Me(e) /\ tpc[e] = "claim"

\* The owner record goes from e's identity to empty, by e's close.
ReleaseBy(e) == owner = Me(e) /\ owner' = NoOwner /\ rpc[e] = "c_owner"

\* The last handle and view of the shared section go: the record is no more.
SectionGone == ShmHolders(rpc') = {}

\* C11: as long as the shared section exists, every change of the owner
\* record is a claim of the empty record by an endpoint's own listener or
\* a release by the endpoint that holds it.
C11_OwnerDiscipline ==
  [][owner' # owner
       => (SectionGone \/ \E e \in Readers : ClaimBy(e) \/ ReleaseBy(e))]_vars

\* An endpoint that was owner and accepted a writer has released the
\* record in its close while another endpoint is open.
C11_Witness ==
  \E e \in Readers :
    /\ Independent(e) /\ nconn[e] > 0
    /\ rpc[e] = "c_unmap" /\ owner = NoOwner
    /\ \E d \in Readers : d # e /\ Opened(d)

\* The fifo_reader thread is in the branch of the owner.
Active(e) == tpc[e] \in {"active", "listen", "wait", "post"}

\* C12: at most one endpoint's listener is in the accept loop, and only
\* while the owner record holds that endpoint's identity.
C12_SingleActiveListener ==
  \A e \in Readers :
    Active(e) => /\ owner = Me(e)
                 /\ \A d \in Readers : Active(d) => d = e

\* The listener of a forked copy idles while its source's listener accepts.
C12_Witness ==
  \E e \in Readers, d \in Readers :
    /\ rflag[d].src = e /\ Active(e) /\ tpc[d] = "idle"
    /\ rflag[d].winpid > rflag[e].winpid

\* C20: a listener that has terminated, and whose endpoint is not on its
\* way through close, does not leave its identity in the owner record.
C20_TerminationReleases ==
  \A e \in Readers :
    (tpc[e] = "done" /\ rpc[e] \notin {"f_join", "c_join", "c_dec", "c_owner"})
      => owner # Me(e)


(***************************************************************************)
(* A non-blocking reader and a writer that come and go, and a second,      *)
(* blocking reader whose open starts only after the writer has closed.     *)
(***************************************************************************)
NextStale ==
  \/ \E e \in {"r1"} :
       \/ RdOpenArm(e, TRUE, FALSE) \/ RdOpenCreate(e) \/ RdOpenCheck(e)
       \/ RdOpenWait(e) \/ RdOpenInc(e) \/ ReaderClose(e)
  \/ \E e \in {"r2"} :
       \/ (wpc["w1"] = "closed" /\ RdOpenArm(e, FALSE, FALSE))
       \/ RdOpenCreate(e) \/ RdOpenCheck(e) \/ RdOpenWait(e) \/ RdOpenInc(e)
       \/ RdFailCancel(e) \/ RdFailJoin(e) \/ RdFailUnmap(e)
  \/ \E e \in Readers : Listener(e)
  \/ \E w \in {"w1"} : WriterOpen(w) \/ W_Close(w)

SpecStale == Init /\ [][NextStale]_vars

\* A writer that has called open and has not closed.
WriterPresent(w) == wpc[w] \in {"wait_rr", "connect", "open", "writing"}

\* C13: the wait of a blocking reader open ends only at a time when a
\* writer has the FIFO open or is opening it.
C13_ReaderWaitsForWriter ==
  [][\A e \in Readers :
       (rpc[e] = "o_wait" /\ rpc'[e] = "o_inc" /\ ~rflag[e].nb)
         => \E w \in Writers : WriterPresent(w)]_vars

(***************************************************************************)
(* One reader that opens and closes while one writer, blocking or not,     *)
(* opens, writes buffers of every length in chunks, and closes.            *)
(***************************************************************************)
NextWrite ==
  \/ \E e \in {"r1"} :
       \/ RdOpenArm(e, TRUE, FALSE) \/ RdOpenCreate(e) \/ RdOpenCheck(e)
       \/ RdOpenWait(e) \/ RdOpenInc(e)
       \/ ListenerOwner(e) \/ ReaderClose(e)
  \/ \E w \in {"w1"} : WriterOpen(w) \/ WriterWrite(w) \/ W_Close(w)

SpecWrite == Init /\ [][NextWrite]_vars

\* raw_write has returned.
Returned(w) == wr[w].pc = "done"

\* The first n bytes of the caller's buffer, as offsets.
Prefix(n) == [j \in 1..n |-> j]

\* C14: a write returns the number of bytes its chunks transferred when that
\* is positive, 0 only for a request of length 0 and -1 otherwise, and the
\* bytes it handed to the pipe are the first bytes of the buffer, in order.
C14_WriteResult ==
  \A w \in Writers :
    Returned(w) =>
      LET n == Len(wr[w].sent) IN
        /\ wr[w].ret = (IF n > 0 THEN n ELSE IF wr[w].req = 0 THEN 0 ELSE -1)
        /\ wr[w].sent = Prefix(n)

\* The step is one iteration of the chunk loop of w.
ChunkStep(w) == wr[w].pc = "run" /\ wr'[w].nchunks = wr[w].nchunks + 1

\* C15: a chunk that finds the server end of the pipe gone sets EPIPE,
\* raises SIGPIPE (the only SIGPIPE of the call), ends the chunk loop and
\* leaves the return value at the bytes transferred before, or -1 if none;
\* SIGPIPE is raised by nothing else and no chunk follows EPIPE.
C15_BrokenPipe ==
  [][\A w \in Writers :
       /\ (ChunkStep(w) /\ ~PipeExists(wh[w]))
            => /\ wr'[w].err = "EPIPE"
               /\ wr'[w].sigpipe = 1
               /\ wr[w].sigpipe = 0
               /\ ~(wr'[w].nbytes < wr'[w].len)
               /\ wr'[w].ret = (IF wr[w].nbytes > 0 THEN wr[w].nbytes ELSE -1)
       /\ (wr'[w].sigpipe # wr[w].sigpipe /\ wr'[w].pc # "idle" /\ wr[w].pc = "run")
            => (ChunkStep(w) /\ ~PipeExists(wh[w]))
       /\ (wr[w].pc = "run" /\ wr[w].err = "EPIPE")
            => (wr'[w].nchunks = wr[w].nchunks /\ wr'[w].sent = wr[w].sent)]_vars

\* A write whose second chunk found the reader gone: partial count, EPIPE.
C15_Witness ==
  \E w \in Writers :
    /\ Returned(w)
    /\ wr[w].err = "EPIPE"
    /\ wr[w].sigpipe = 1
    /\ wr[w].nchunks >= 2
    /\ wr[w].ret > 0

\* C16: a non-blocking write of more than the atomic-write threshold issues
\* exactly one chunk and returns at most the threshold.
C16_NonBlockingWrite ==
  \A w \in Writers :
    (Returned(w) /\ wnb[w] /\ wr[w].req > MaxAtomic)
      => (wr[w].nchunks = 1 /\ wr[w].ret <= MaxAtomic)

\* The step is one sample of hit_eof by e.
HitEofStep(e) == rpc[e] = "rd_eof" /\ <<rpc'[e], rd'[e]>> # <<rpc[e], rd[e]>>

\* C17: a read returns EOF only from a sample that finds the connected
\* count 0 after the sample before it found 0 as well, and then with 0
\* bytes; the first zero sample returns nothing and is repeated; the second
\* returns 0 bytes and no error, whether the endpoint blocks or not.
C17_EofTwoSamples ==
  [][\A e \in Readers :
       /\ (rres'[e] # rres[e] /\ rres'[e].err = "eof")
            => (HitEofStep(e) /\ nconn[e] = 0 /\ ~rd[e].retry /\ rres'[e].n = 0)
       /\ (HitEofStep(e) /\ nconn[e] = 0 /\ rd[e].retry)
            => (rpc'[e] = "rd_eof" /\ ~rd'[e].retry /\ rres'[e] = rres[e])
       /\ (HitEofStep(e) /\ nconn[e] = 0 /\ ~rd[e].retry)
            => (rpc'[e] = "open" /\ rres'[e].n = 0 /\ rres'[e].err = "eof")]_vars

\* A non-blocking reader that had a writer has read EOF.
C17_Witness ==
  \E e \in Readers :
    /\ ReturnedEof(e)
    /\ rflag[e].nb
    /\ \E i \in 1..Len(fc[e]) : fc[e][i].state = "invalid"

\* close of e is past the wait for its listener.
TearingDown(e) == rpc[e] \in {"c_dec", "c_owner", "c_unmap", "closed"}

\* C18: the cancellation of close sets the cancel event of its own
\* endpoint and of no other; close closes the table's handles, decrements
\* the count, releases the ownership and unmaps only after its listener has
\* terminated; from then on the listener takes no step and the table and
\* its connected count do not change.
C18_CloseOrdering ==
  [][\A e \in Readers :
       /\ (rpc[e] = "open" /\ rpc'[e] = "c_join")
            => /\ cancel_evt'[e]
               /\ \A d \in Readers \ {e} : cancel_evt'[d] = cancel_evt[d]
       /\ (rpc[e] = "c_join" /\ rpc'[e] # "c_join")
            => (rpc'[e] = "c_dec" /\ tpc[e] = "done")
       /\ TearingDown(e)
            => /\ tpc[e] = "done" /\ tpc'[e] = "done"
               /\ fc'[e] = fc[e]
               /\ nconn'[e] = nconn[e]
               /\ TearingDown(e)']_vars

\* A closed endpoint whose table had an entry, next to an open endpoint
\* whose listener was not cancelled and runs.
C18_Witness ==
  \E e \in Readers, d \in Readers :
    /\ e # d
    /\ rpc[e] = "closed"
    /\ Len(fc[e]) > 0
    /\ rpc[d] = "open"
    /\ ~cancel_evt[d]
    /\ tpc[d] \notin {"none", "done"}

(***************************************************************************)
(* Two reader endpoints, duplexers included, that open (and fail to), are  *)
(* duplicated, forked, exec'ed and closed, and one writer.                 *)
(***************************************************************************)
NextCount ==
  \/ \E e \in Readers : ReaderOpen(e) \/ Listener(e) \/ ReaderClose(e) \/ R_Exec(e)
  \/ \E e \in Readers, d \in Readers : R_Dup(e, d) \/ R_Fork(e, d)
  \/ \E w \in {"w1"} : W_Start(w, FALSE) \/ W_WaitRR(w) \/ W_Connect(w) \/ W_Close(w)

SpecCount == Init /\ [][NextCount]_vars

\* open has armed read_ready and has neither counted itself nor failed.
MidOpen(e) == rpc[e] \in {"o_create", "o_check", "o_wait", "o_duplex", "o_inc"}

\* Between the increment of open, dup or fork and the decrement of close.
Counted(e) == rpc[e] \in {"open", "rd_eof", "rd_lock", "rd_scan", "c_join", "c_dec"}

\* C19: the reader count is the number of open reader endpoints; read_ready
\* is reset only by the close that brings the count to zero, by the last
\* handle of the event going away, or by a failed reader open at a time when
\* no other reader endpoint is open or in the middle of its open.
C19_ReaderCount ==
  [][/\ nreaders' = Cardinality({e \in Readers : Counted(e)'})
     /\ (read_ready /\ ~read_ready')
          => \/ nreaders = 1 /\ nreaders' = 0
             \/ EventHolders(rpc', wpc') = {}
             \/ \E e \in Readers :
                  /\ rpc[e] = "f_join" /\ rpc'[e] = "f_unmap"
                  /\ \A d \in Readers \ {e} : ~MidOpen(d) /\ ~Counted(d)]_vars

\* The endpoint exists: its open has started and has not failed, and its
\* close has not yet passed the release of the ownership.
Live(e) == rpc[e] \notin {"none", "closed", "failed", "f_unmap", "c_unmap"}

\* C21: the owner record is empty or holds the present identity of an
\* endpoint that exists.
C21_OwnerNeverStale == owner = NoOwner \/ \E e \in Readers : Live(e) /\ owner = Me(e)

(***************************************************************************)
(* One reader that reads while its listener accepts a writer that comes    *)
(* and goes; the listener's wait may fail.                                 *)
(***************************************************************************)
NextLock ==
  \/ \E e \in {"r1"} :
       \/ RdOpenOk(e) \/ ListenerOwner(e) \/ T_WaitFail(e)
       \/ ReaderRead(e) \/ ReaderClose(e)
  \/ \E w \in {"w1"} : W_Start(w, FALSE) \/ W_WaitRR(w) \/ W_Connect(w) \/ W_Close(w)

SpecLock == Init /\ [][NextLock]_vars

\* The step changes the handler table of e or its connected count.
TableChanged(e) == fc'[e] # fc[e] \/ nconn'[e] # nconn[e]

\* C22: the handler table and the connected count change only in a step
\* that could take the table lock, or in a step of the reader's scan while
\* the scan holds it; the listener changes nothing while the scan holds
\* the lock.
C22_TableLock ==
  [][\A e \in Readers :
       TableChanged(e)
         => \/ fclock[e] = "free"
            \/ fclock[e] = "read" /\ rpc[e] = "rd_scan" /\ tpc'[e] = tpc[e]]_vars

(***************************************************************************)
(* One reader, blocking or not, that reads from two writers that come and  *)
(* go, one of which writes; a read of a pipe instance may fail for another *)
(* reason.                                                                 *)
(***************************************************************************)
NextScan ==
  \/ \E e \in {"r1"} :
       \/ RdOpenOk(e) \/ ListenerOwner(e) \/ ReaderRead(e) \/ R_ScanFault(e)
       \/ ReaderClose(e)
  \/ \E w \in ReadWriters :
       W_Start(w, FALSE) \/ W_WaitRR(w) \/ W_Connect(w) \/ W_Close(w)
  \/ \E w \in {"w1"}, n \in 1..MaxMsg : W_Write(w, n)

SpecScan == Init /\ [][NextScan]_vars

\* The step is one iteration of the scan of raw_read on e, at entry i.
ScanStep(e) ==
  /\ rpc[e] = "rd_scan"
  /\ rd[e].i <= Len(fc[e])
  /\ <<rpc'[e], rd'[e], rres'[e], fc'[e]>> # <<rpc[e], rd[e], rres[e], fc[e]>>
  /\ tpc'[e] = tpc[e]

\* The step is a step of raw_read on e.
ReadStep(e) ==
  /\ InRead(e)
  /\ <<rpc'[e], rd'[e], rres'[e]>> # <<rpc[e], rd[e], rres[e]>>

\* C23: an iteration of the scan touches only the entry it is at; an entry
\* that is not connected is passed over; a connected entry with an empty
\* pipe is left as it is; an entry changes only from connected to invalid,
\* with the count decremented by one, and then the scan goes on to the next
\* entry (the peer is gone) or the read fails at once; data comes from a
\* connected entry; the scan goes through the table in order; no step of
\* the read changes the number of entries; a scan of a non-blocking
\* endpoint that ends without data fails with EAGAIN.
C23_ScanClassification ==
  [][\A e \in Readers :
       /\ ReadStep(e) =>
            /\ Len(fc'[e]) = Len(fc[e])
            /\ \A j \in 1..Len(fc[e]) : fc'[e][j].h = fc[e][j].h
       /\ ScanStep(e) =>
            LET i == rd[e].i
                ent == fc[e][i]
                pp == pipes[ent.h]
            IN
              /\ \A j \in 1..Len(fc[e]) : j # i => fc'[e][j] = fc[e][j]
              /\ rpc'[e] = "rd_scan" => rd'[e].i = i + 1
              /\ ent.state # "connected"
                   => /\ fc'[e] = fc[e] /\ nconn'[e] = nconn[e]
                      /\ pipes' = pipes
                      /\ rpc'[e] = "rd_scan"
              /\ (ent.state = "connected" /\ Len(pp.q) = 0 /\ pp.copen
                    /\ rpc'[e] = "rd_scan")
                   => (fc'[e] = fc[e] /\ nconn'[e] = nconn[e])
              /\ (ent.state = "connected" /\ Len(pp.q) = 0 /\ ~pp.copen
                    /\ rpc'[e] = "rd_scan")
                   => /\ fc'[e][i].state = "invalid"
                      /\ nconn'[e] = nconn[e] - 1
              /\ fc'[e] # fc[e]
                   => /\ ent.state = "connected"
                      /\ fc'[e][i].state = "invalid"
                      /\ nconn'[e] = nconn[e] - 1
                      /\ \/ rpc'[e] = "rd_scan" /\ Len(pp.q) = 0 /\ ~pp.copen
                         \/ /\ rpc'[e] = "open"
                            /\ rres'[e].n = -1
                            /\ rres'[e].err \notin {"none", "eof", "EAGAIN"}
              /\ fc'[e] = fc[e] => nconn'[e] = nconn[e]
              /\ rres'[e].n > 0
                   => (ent.state = "connected" /\ rres'[e].src = ent.h
                         /\ rpc'[e] = "open")
       /\ (rpc[e] = "rd_scan" /\ rd[e].i > Len(fc[e]) /\ rflag[e].nb
             /\ rpc'[e] # "rd_scan")
            => (rpc'[e] = "open" /\ rres'[e].n = -1 /\ rres'[e].err = "EAGAIN")]_vars

\* A read that failed on the second entry after it had found the peer of
\* the first one gone.
C23_Witness ==
  \E e \in Readers :
    /\ rpc[e] = "open"
    /\ rres[e].n = -1
    /\ rres[e].err = ReadErrno("INSUFFICIENT_RESOURCES")
    /\ nconn[e] = 0
    /\ Len(fc[e]) >= 2
    /\ \A j \in 1..Len(fc[e]) : fc[e][j].state = "invalid"

\* C24: a duplicate's listener never takes the empty owner record while
\* the listener of the endpoint it was made from has not yet made its own
\* test of the record.
C24_FirstOpenerOwns ==
  [][\A d \in Readers :
       (ClaimBy(d) /\ ~Independent(d)) => tpc[rflag[d].src] # "claim"]_vars

\* An entry that is neither connected nor invalid.
Pending(ent) == ent.state \notin {"connected", "invalid"}
PendingAt(e) == {i \in 1..Len(fc[e]) : Pending(fc[e][i])}

\* C25: a table holds at most one entry that is neither connected nor
\* invalid, and that entry is the last one.
C25_OnePending == \A e \in Readers : PendingAt(e) \subseteq {Len(fc[e])}

(***************************************************************************)
(* One reader that reads and closes while three writers come and go: one   *)
(* writer more than the handler table holds; the listener's wait and the   *)
(* reader's NtReadFile may fail.                                           *)
(***************************************************************************)
NextTable ==
  \/ \E e \in {"r1"} :
       \/ RdOpenArm(e, TRUE, FALSE) \/ RdOpenCreate(e) \/ RdOpenCheck(e)
       \/ RdOpenWait(e) \/ RdOpenInc(e)
       \/ ListenerOwner(e) \/ T_WaitFail(e)
       \/ R_ReadStart(e, 1) \/ ReadLoop(e) \/ R_ScanFault(e)
       \/ ReaderClose(e)
  \/ \E w \in Writers : W_Start(w, FALSE) \/ W_WaitRR(w) \/ W_Connect(w) \/ W_Close(w)

SpecTable == Init /\ [][NextTable]_vars

\* s is t with some elements left out, the others in their order.
IsSubseq(s, t) ==
  \E f \in [1..Len(s) -> 1..Len(t)] :
    /\ \A j \in 1..Len(s) : s[j] = t[f[j]]
    /\ \A j \in 1..Len(s), k \in 1..Len(s) : j < k => f[j] < f[k]

HandleSeq(t) == [j \in 1..Len(t) |-> t[j].h]
Front(t) == SubSeq(t, 1, Len(t) - 1)

\* The step is the purge and the add_client_handler of e's listener.
AcceptStep(e) == tpc[e] = "active" /\ tpc'[e] \in {"listen", "done"}

\* C26: with the table lock free, the connected count of an open endpoint
\* is the number of connected entries and the table holds at most
\* MAX_CLIENTS entries; an add on a table of MAX_CLIENTS entries fails and
\* leaves the table as the purge left it, an add on a shorter table whose
\* pipe instance can be created appends one entry; every other change of a
\* table keeps the entries that remain in their order.
C26_TableCounters ==
  /\ [](\A e \in Readers :
          (Opened(e) /\ fclock[e] = "free")
            => /\ nconn[e] = Cardinality({i \in 1..Len(fc[e]) :
                                            fc[e][i].state = "connected"})
               /\ nconn[e] >= 0
               /\ Len(fc[e]) <= MAX_CLIENTS)
  /\ [][\A e \in Readers :
          /\ (AcceptStep(e) /\ Len(PurgeInvalid(fc[e])) = MAX_CLIENTS)
               => (tpc'[e] = "done" /\ fc'[e] = PurgeInvalid(fc[e]))
          /\ (AcceptStep(e) /\ tpc'[e] = "listen")
               => /\ Len(PurgeInvalid(fc[e])) < MAX_CLIENTS
                  /\ Len(fc'[e]) = Len(PurgeInvalid(fc[e])) + 1
                  /\ IsSubseq(HandleSeq(Front(fc'[e])), HandleSeq(fc[e]))
          /\ (fc'[e] # fc[e] /\ ~AcceptStep(e) /\ rpc[e] # "none")
               => IsSubseq(HandleSeq(fc'[e]), HandleSeq(fc[e]))]_vars

\* The listener of an open reader has ended on a full table of connected
\* writers.
C26_Witness ==
  \E e \in Readers :
    /\ Opened(e)
    /\ tpc[e] = "done"
    /\ ~cancel_evt[e]
    /\ Len(fc[e]) = MAX_CLIENTS
    /\ nconn[e] = MAX_CLIENTS

====
